---- MODULE Spec2Model ----
(***************************************************************************)
(* A model of the k-mer counting library (src/src/lib.rs): the window      *)
(* generator kmers, the base validator check_bases, the aggregator and     *)
(* ranker count_kmers, and the per-file driver run_fasta_kmer_count with    *)
(* its emitter save_kmer_count.                                             *)
(*                                                                         *)
(* A sequence is a &[u8]: a TLA+ sequence of integers 0..255.  A k-mer is a *)
(* &str borrowed from it: the same bytes, once str::from_utf8 accepted      *)
(* them.                                                                    *)
(***************************************************************************)
EXTENDS Integers, Sequences, FiniteSets, TLC

\* ------------------------------------------------------------------ bounds

\* Longest sequence handed to kmers / count_kmers / check_bases.
MaxLen == 4

\* Most records in one FASTA file, and the longest record's sequence.
MaxRecords == 3
MaxRecLen == 2

\* Most calls of next() on one KMers iterator.
MaxNextCalls == 6

\* ------------------------------------------------------------------- bytes

\* b"ATCG" (lib.rs:104)
ValidBases == {65, 84, 67, 71}

\* The bytes sequences are drawn from: 'A', 'C' (valid bases), 'a' (an ASCII
\* symbol that is no base: the lower case of one), and 0xC3, 0xA9 (together the
\* UTF-8 encoding of U+00E9; each alone is not valid UTF-8).
Bytes == {65, 67, 97, 195, 169}

\* The bytes a FASTA file's records are made of in a run: 'A' and the two bytes
\* of U+00E9.
RunBytes == {65, 195, 169}

RECURSIVE SeqsUpTo(_, _)
SeqsUpTo(S, n) ==
    IF n = 0 THEN {<<>>}
    ELSE LET shorter == SeqsUpTo(S, n - 1)
         IN  shorter \cup {Append(s, x) : s \in {t \in shorter : Len(t) = n - 1}, x \in S}

IsContinuation(b) == b \in 128..191

\* str::from_utf8 / String::from_utf8 accept exactly the well-formed UTF-8
\* byte sequences.
RECURSIVE IsUtf8(_)
IsUtf8(b) ==
    IF b = <<>> THEN TRUE
    ELSE LET c == b[1]
             n == Len(b)
         IN  IF c < 128 THEN IsUtf8(Tail(b))
             ELSE IF c \in 194..223
                  THEN /\ n >= 2
                       /\ IsContinuation(b[2])
                       /\ IsUtf8(SubSeq(b, 3, n))
             ELSE IF c \in 224..239
                  THEN /\ n >= 3
                       /\ b[2] \in (IF c = 224 THEN 160..191
                                    ELSE IF c = 237 THEN 128..159 ELSE 128..191)
                       /\ IsContinuation(b[3])
                       /\ IsUtf8(SubSeq(b, 4, n))
             ELSE IF c \in 240..244
                  THEN /\ n >= 4
                       /\ b[2] \in (IF c = 240 THEN 144..191
                                    ELSE IF c = 244 THEN 128..143 ELSE 128..191)
                       /\ IsContinuation(b[3])
                       /\ IsContinuation(b[4])
                       /\ IsUtf8(SubSeq(b, 5, n))
             ELSE FALSE

IsAscii(b) == \A i \in 1..Len(b) : b[i] < 128

\* a.cmp(b) on &str: byte-lexicographic order; TRUE when a < b.
LexLess(a, b) ==
    \E i \in 1..(Len(b)) :
        /\ i <= Len(a) + 1
        /\ \A j \in 1..(i - 1) : a[j] = b[j]
        /\ (i = Len(a) + 1 \/ a[i] < b[i])

\* ----------------------------------------------------------- Result values

Ok(v) == [tag |-> "Ok", val |-> v]
Err(e) == [tag |-> "Err", err |-> e]
\* The state of a call that has not been made.
NotCalled == [tag |-> "NotCalled"]
\* An unwinding panic (Result::unwrap on an Err).
Panic == [tag |-> "Panic"]

KmerLengthTooSmall(kk) == [kind |-> "KmerLengthTooSmall", k |-> kk]
KmerLengthTooLong(kk, n) == [kind |-> "KmerLengthTooLong", k |-> kk, seq_len |-> n]
IncorrectBases(b) == [kind |-> "IncorrectBases", bases |-> b]

\* ------------------------------------------------------------------- kmers

\* Windows with the last window lost (an off-by-one in the number of windows).
WindowsShort(seq, kk) == [i \in 1..(Len(seq) - kk) |-> SubSeq(seq, i, i + kk - 1)]

\* sequence.windows(k), k >= 1: every contiguous slice of length k, left to right.
Windows(seq, kk) == [i \in 1..(Len(seq) - kk + 1) |-> SubSeq(seq, i, i + kk - 1)]

\* .flat_map(|x| str::from_utf8(x)): the windows from_utf8 accepts, in order; a
\* window it rejects yields nothing.
RECURSIVE FlatMapFromUtf8(_, _)
FlatMapFromUtf8(ws, i) ==
    IF i > Len(ws) THEN <<>>
    ELSE (IF IsUtf8(ws[i]) THEN <<ws[i]>> ELSE <<>>) \o FlatMapFromUtf8(ws, i + 1)

\* kmers with the length test off by one: `sequence.len() <= k`.
KmersLenOffByOne(seq, kk) ==
    IF kk <= 0 THEN Err(KmerLengthTooSmall(kk))
    ELSE IF Len(seq) <= kk THEN Err(KmerLengthTooLong(kk, Len(seq)))
    ELSE Ok(FlatMapFromUtf8(Windows(seq, kk), 1))

\* fn kmers(sequence, k): the items are collected, as kmers_vec does.
Kmers(seq, kk) ==
    IF kk <= 0 THEN Err(KmerLengthTooSmall(kk))
    ELSE IF Len(seq) < kk THEN Err(KmerLengthTooLong(kk, Len(seq)))
    ELSE Ok(FlatMapFromUtf8(Windows(seq, kk), 1))

\* ------------------------------------------------------------- check_bases

RECURSIVE BadBasesDedup(_, _)
\* The loop of check_bases pushing a bad byte only the first time it is met.
BadBasesDedup(seq, i) ==
    IF i > Len(seq) THEN <<>>
    ELSE (IF seq[i] \notin ValidBases /\ \A j \in 1..(i - 1) : seq[j] # seq[i]
          THEN <<seq[i]>> ELSE <<>>) \o BadBasesDedup(seq, i + 1)

RECURSIVE BadBases(_, _)
\* the loop of check_bases: every byte that is not in b"ATCG" is pushed.
BadBases(seq, i) ==
    IF i > Len(seq) THEN <<>>
    ELSE (IF seq[i] \notin ValidBases THEN <<seq[i]>> ELSE <<>>) \o BadBases(seq, i + 1)

\* fn check_bases(seq)
CheckBases(seq) ==
    LET bad_bases == BadBases(seq, 1)
    IN  IF bad_bases = <<>> THEN Ok(<<>>)
        ELSE IF IsUtf8(bad_bases) THEN Err(IncorrectBases(bad_bases))
        ELSE Panic

\* ------------------------------------------------------------- count_kmers

\* HashMap::new()
EmptyCounter == [x \in {} |-> 0]

\* The entry update with or_insert(1): a first occurrence counts twice.
CountOneFromOne(counter, kmer) ==
    IF kmer \in DOMAIN counter
    THEN [counter EXCEPT ![kmer] = @ + 1]
    ELSE [x \in DOMAIN counter \cup {kmer} |-> IF x = kmer THEN 1 + 1 ELSE counter[x]]

\* The entry update as an insert: counter.insert(kmer, 1) forgets earlier ones.
CountOneInsert(counter, kmer) ==
    [x \in DOMAIN counter \cup {kmer} |-> IF x = kmer THEN 1 ELSE counter[x]]

\* *counter.entry(kmer).or_insert(0) += 1
CountOne(counter, kmer) ==
    IF kmer \in DOMAIN counter
    THEN [counter EXCEPT ![kmer] = @ + 1]
    ELSE [x \in DOMAIN counter \cup {kmer} |-> IF x = kmer THEN 0 + 1 ELSE counter[x]]

RECURSIVE CountAll(_, _, _)
\* for kmer in kmers(sequence, k)? { ... }
CountAll(counter, items, i) ==
    IF i > Len(items) THEN counter
    ELSE CountAll(CountOne(counter, items[i]), items, i + 1)

\* The orders counter.into_iter() may enumerate the entries in: any.
RECURSIVE IterOrders(_)
IterOrders(keys) ==
    IF keys = {} THEN {<<>>}
    ELSE UNION {{<<x>> \o rest : rest \in IterOrders(keys \ {x})} : x \in keys}

\* .map(|(k, v)| KmerRecord { seq: k, count: v }).collect()
Collect(counter, order) ==
    [i \in 1..Len(order) |-> [seq |-> order[i], count |-> counter[order[i]]]]

\* |a, b| a.seq.cmp(b.seq) is Less
SeqLess(a, b) == LexLess(a.seq, b.seq)

\* The count comparator without .reverse(): ascending counts.
CountLess(a, b) == a.count < b.count

\* |a, b| a.count.cmp(&b.count).reverse() is Less
CountRevLess(a, b) == a.count > b.count

Less(by, a, b) == IF by = "seq" THEN SeqLess(a, b) ELSE CountRevLess(a, b)

\* slice::sort_by is a stable sort: x goes before the first element it is Less
\* than, so after every element it is equal to.
RECURSIVE InsertStable(_, _, _, _)
InsertStable(sorted, x, by, i) ==
    IF i > Len(sorted) THEN Append(sorted, x)
    ELSE IF Less(by, x, sorted[i])
         THEN SubSeq(sorted, 1, i - 1) \o <<x>> \o SubSeq(sorted, i, Len(sorted))
         ELSE InsertStable(sorted, x, by, i + 1)

RECURSIVE SortPrefix(_, _, _)
SortPrefix(v, by, n) ==
    IF n = 0 THEN <<>>
    ELSE InsertStable(SortPrefix(v, by, n - 1), v[n], by, 1)

SortBy(v, by) == SortPrefix(v, by, Len(v))

\* The ranking without the first, alphabetical sort.
RankCountOnly(collected) == SortBy(collected, "count")

\* ordered.sort_by(seq); ordered.sort_by(count reversed)
Rank(collected) == SortBy(SortBy(collected, "seq"), "count")

\* The counter count_kmers has built when its loop ends (kmers succeeded).
Counter(seq, kk) == CountAll(EmptyCounter, Kmers(seq, kk).val, 1)

\* fn count_kmers(sequence, k), with `order` the order into_iter() enumerates
\* the counter in.
CountKmers(seq, kk, order) ==
    LET r == Kmers(seq, kk)
    IN  IF r.tag = "Err" THEN r
        ELSE Ok(Rank(Collect(Counter(seq, kk), order)))

\* The iteration orders possible for count_kmers(seq, kk): one, unused, when
\* kmers fails before the counter is filled.
OrdersFor(seq, kk) ==
    IF Kmers(seq, kk).tag = "Err" THEN {<<>>}
    ELSE IterOrders(DOMAIN Counter(seq, kk))

\* ---------------------------------------------------------------- state

VARIABLES
    sequence,     \* the &[u8] handed to kmers, count_kmers and check_bases
    k,            \* the k-mer length
    kmers_out,    \* what kmers(sequence, k) returned, collected
    count_out,    \* what count_kmers(sequence, k) returned
    iter_order,   \* the order the HashMap was enumerated in by that call
    check_out,    \* what check_bases(sequence) returned
    records,      \* the sequences of the records reader.records() yields, in order
    pos,          \* the index of the record the loop of run_fasta_kmer_count is at
    pc,           \* where run_fasta_kmer_count is: "open", "loop", "done", "panicked"
    out_file,     \* the file at output_path: whether it exists, and its lines
    calls,        \* the indices of the records count_kmers was invoked on, in order
    stdout,       \* the WARNING lines printed, as <<record index, error>>
    stderr,       \* the ERROR lines printed, as <<record index, error>>
    result,       \* what run_fasta_kmer_count returned
    it_sequence,  \* KMers.sequence: what is left of the &str the iterator was made on
    it_yielded,   \* the items next() has returned so far, in order
    it_last,      \* what the last call of next() returned
    it_calls      \* how many times next() was called

fnvars == <<sequence, kmers_out, count_out, iter_order, check_out>>
runvars == <<records, pos, pc, out_file, calls, stdout, stderr, result>>
itvars == <<it_sequence, it_yielded, it_last, it_calls>>
vars == <<sequence, k, kmers_out, count_out, iter_order, check_out,
          records, pos, pc, out_file, calls, stdout, stderr, result,
          it_sequence, it_yielded, it_last, it_calls>>

\* No KMers iterator is in use.
NoIterator ==
    /\ it_sequence = <<>>
    /\ it_yielded = <<>>
    /\ it_last = NotCalled
    /\ it_calls = 0

\* No file at output_path.
NoFile == [exists |-> FALSE, lines |-> <<>>]

\* ---------------------------------------------- the functions, called once

FnInit ==
    /\ sequence \in SeqsUpTo(Bytes, MaxLen)
    /\ k \in 0..(MaxLen + 1)
    /\ kmers_out = NotCalled
    /\ count_out = NotCalled
    /\ iter_order = <<>>
    /\ check_out = NotCalled
    /\ records = <<>>
    /\ pos = 1
    /\ pc = "idle"
    /\ out_file = NoFile
    /\ calls = <<>>
    /\ stdout = <<>>
    /\ stderr = <<>>
    /\ result = NotCalled
    /\ NoIterator

CallKmers ==
    /\ kmers_out = NotCalled
    /\ kmers_out' = Kmers(sequence, k)
    /\ UNCHANGED <<sequence, k, count_out, iter_order, check_out>>
    /\ UNCHANGED runvars
    /\ UNCHANGED itvars

CallCountKmers ==
    /\ count_out = NotCalled
    /\ \E order \in OrdersFor(sequence, k) :
           /\ iter_order' = order
           /\ count_out' = CountKmers(sequence, k, order)
    /\ UNCHANGED <<sequence, k, kmers_out, check_out>>
    /\ UNCHANGED runvars
    /\ UNCHANGED itvars

CallCheckBases ==
    /\ check_out = NotCalled
    /\ check_out' = CheckBases(sequence)
    /\ UNCHANGED <<sequence, k, kmers_out, count_out, iter_order>>
    /\ UNCHANGED runvars
    /\ UNCHANGED itvars

FnNext == CallKmers \/ CallCountKmers \/ CallCheckBases

FnSpec == FnInit /\ [][FnNext]_vars

\* ------------------------------------------------- run_fasta_kmer_count

\* An anyhow::Error made from a std::io::Error.
IoError == [kind |-> "Io"]

HeaderLine == [line |-> "header", seq |-> <<>>, count |-> 0]
RowLine(rec) == [line |-> "row", seq |-> rec.seq, count |-> rec.count]

\* What save_kmer_count writes: writeln!("kmer\tcount"), then a line per entry.
TableLines(kmer_count) ==
    <<HeaderLine>> \o [i \in 1..Len(kmer_count) |-> RowLine(kmer_count[i])]

\* fn save_kmer_count(kmer_count, output_path) on the file `file`. File::create
\* fails and leaves the file as it is, or truncates it; then `written` lines
\* are written before a writeln! fails, or all of them are.
SaveKmerCount(file, kmer_count, created, written) ==
    IF ~created THEN [file |-> file, ret |-> Err(IoError)]
    ELSE [file |-> [exists |-> TRUE,
                    lines |-> SubSeq(TableLines(kmer_count), 1, written)],
          ret  |-> IF written = Len(TableLines(kmer_count)) THEN Ok(<<>>)
                   ELSE Err(IoError)]

\* How a save may go: File::create fails; or it succeeds and 0, 1, ... or all
\* of the lines are written. Nothing is saved, so nothing can fail, for an Err.
SaveOutcomes(counted) ==
    IF counted.tag = "Ok"
    THEN {[created |-> FALSE, written |-> 0]}
         \cup {[created |-> TRUE, written |-> n] : n \in 0..(Len(counted.val) + 1)}
    ELSE {[created |-> TRUE, written |-> 0]}

\* The file after the match on count_kmers' result for one record: Ok is
\* saved, Err is only printed.
FileAfterWriteOnErr(file, counted, created, written) ==
    IF counted.tag = "Ok" THEN SaveKmerCount(file, counted.val, created, written)
    ELSE SaveKmerCount(file, <<>>, TRUE, 1)

FileAfter(file, counted, created, written) ==
    IF counted.tag = "Ok" THEN SaveKmerCount(file, counted.val, created, written)
    ELSE [file |-> file, ret |-> Ok(<<>>)]

\* The records of the input file. bio's fasta::Reader reads the file line by
\* line into a String, so a record's sequence is valid UTF-8 (bytes that are
\* not make `record?` fail, an I/O failure); it may be empty.
RecordPool == {s \in SeqsUpTo(RunBytes, MaxRecLen) : IsUtf8(s)}

RunInit ==
    /\ records \in SeqsUpTo(RecordPool, MaxRecords)
    /\ k \in 0..(MaxRecLen + 1)
    /\ pos = 1
    /\ pc = "open"
    /\ out_file = NoFile
    /\ calls = <<>>
    /\ stdout = <<>>
    /\ stderr = <<>>
    /\ result = NotCalled
    /\ sequence = <<>>
    /\ kmers_out = NotCalled
    /\ count_out = NotCalled
    /\ iter_order = <<>>
    /\ check_out = NotCalled
    /\ NoIterator

\* let fasta_file = File::open(fasta_path)?;
OpenFasta ==
    /\ pc = "open"
    /\ \/ pc' = "loop" /\ UNCHANGED result
       \/ pc' = "done" /\ result' = Err(IoError)
    /\ UNCHANGED <<k, fnvars, records, pos, out_file, calls, stdout, stderr>>
    /\ UNCHANGED itvars

\* let record = record?; failing
ReadFails ==
    /\ pc = "loop"
    /\ pos <= Len(records)
    /\ pc' = "done"
    /\ result' = Err(IoError)
    /\ UNCHANGED <<k, fnvars, records, pos, out_file, calls, stdout, stderr>>
    /\ UNCHANGED itvars

\* One turn of the loop with the record read: check_bases and its warning,
\* count_kmers, and the match on its result.
ProcessRecordAbortOnErr ==
    /\ pc = "loop"
    /\ pos <= Len(records)
    /\ sequence' = records[pos]
    /\ check_out' = CheckBases(records[pos])
    /\ kmers_out' = kmers_out
    /\ UNCHANGED itvars
    /\ IF check_out'.tag = "Panic"
       THEN /\ pc' = "panicked"
            /\ UNCHANGED <<k, count_out, iter_order, records, pos, out_file,
                           calls, stdout, stderr, result>>
       ELSE /\ stdout' = IF check_out'.tag = "Err"
                         THEN Append(stdout, <<pos, check_out'.err>>) ELSE stdout
            /\ calls' = Append(calls, pos)
            /\ \E order \in OrdersFor(records[pos], k) :
                   /\ iter_order' = order
                   /\ count_out' = CountKmers(records[pos], k, order)
            /\ IF count_out'.tag = "Err"
               THEN /\ pc' = "done"
                    /\ result' = count_out'
                    /\ UNCHANGED <<out_file, stderr, pos>>
               ELSE \E io \in SaveOutcomes(count_out') :
                       LET saved == FileAfter(out_file, count_out', io.created, io.written)
                       IN  /\ out_file' = saved.file
                           /\ UNCHANGED stderr
                           /\ IF saved.ret.tag = "Err"
                              THEN pc' = "done" /\ result' = saved.ret /\ pos' = pos
                              ELSE pc' = "loop" /\ result' = result /\ pos' = pos + 1
            /\ UNCHANGED <<k, records>>

ProcessRecord ==
    /\ pc = "loop"
    /\ pos <= Len(records)
    /\ sequence' = records[pos]
    /\ check_out' = CheckBases(records[pos])
    /\ kmers_out' = kmers_out
    /\ UNCHANGED itvars
    /\ IF check_out'.tag = "Panic"
       THEN /\ pc' = "panicked"
            /\ UNCHANGED <<k, count_out, iter_order, records, pos, out_file,
                           calls, stdout, stderr, result>>
       ELSE /\ stdout' = IF check_out'.tag = "Err"
                         THEN Append(stdout, <<pos, check_out'.err>>) ELSE stdout
            /\ calls' = Append(calls, pos)
            /\ \E order \in OrdersFor(records[pos], k) :
                   /\ iter_order' = order
                   /\ count_out' = CountKmers(records[pos], k, order)
            /\ stderr' = IF count_out'.tag = "Err"
                         THEN Append(stderr, <<pos, count_out'.err>>) ELSE stderr
            /\ \E io \in SaveOutcomes(count_out') :
                   LET saved == FileAfter(out_file, count_out', io.created, io.written)
                   IN  /\ out_file' = saved.file
                       /\ IF saved.ret.tag = "Err"
                          THEN pc' = "done" /\ result' = saved.ret /\ pos' = pos
                          ELSE pc' = "loop" /\ result' = result /\ pos' = pos + 1
            /\ UNCHANGED <<k, records>>

\* The records are exhausted: Ok(())
ReturnOk ==
    /\ pc = "loop"
    /\ pos > Len(records)
    /\ pc' = "done"
    /\ result' = Ok(<<>>)
    /\ UNCHANGED <<k, fnvars, records, pos, out_file, calls, stdout, stderr>>
    /\ UNCHANGED itvars

Next == OpenFasta \/ ReadFails \/ ProcessRecord \/ ReturnOk

Spec == RunInit /\ [][Next]_vars

\* The run is sequential code: a step that can be taken is taken.
FairSpec == RunInit /\ [][Next]_vars /\ WF_vars(Next)

\* ------------------------------------------------------ the KMers iterator

\* Option values.
None == [tag |-> "None"]
Some(v) == [tag |-> "Some", val |-> v]

\* str::is_char_boundary(i), i a byte offset from 0: the start, the end, or a
\* byte that is no continuation byte.
IsCharBoundary(s, i) ==
    \/ i = 0
    \/ i = Len(s)
    \/ i < Len(s) /\ ~IsContinuation(s[i + 1])

\* next() with the iterator moved on by k: windows that do not overlap.
KMersNextSkip(seq, kk) ==
    IF kk <= 0 THEN [ret |-> None, sequence |-> seq]
    ELSE IF Len(seq) < kk THEN [ret |-> None, sequence |-> seq]
    ELSE IF ~IsCharBoundary(seq, kk) THEN [ret |-> Panic, sequence |-> seq]
    ELSE [ret |-> Some(SubSeq(seq, 1, kk)),
          sequence |-> SubSeq(seq, kk + 1, Len(seq))]

\* fn next(&mut self) on KMers { sequence: seq, k: kk }: what it returns and
\* what self.sequence is after it. &self.sequence[0..k] panics when k is inside
\* a character; self.sequence.get(1..) is None when 1 is.
KMersNext(seq, kk) ==
    IF kk <= 0 THEN [ret |-> None, sequence |-> seq]
    ELSE IF Len(seq) < kk THEN [ret |-> None, sequence |-> seq]
    ELSE IF ~IsCharBoundary(seq, kk) THEN [ret |-> Panic, sequence |-> seq]
    ELSE [ret |-> Some(SubSeq(seq, 1, kk)),
          sequence |-> IF IsCharBoundary(seq, 1) THEN SubSeq(seq, 2, Len(seq))
                       ELSE <<>>]

\* The &str values an iterator is made on: valid UTF-8.
StrPool == {s \in SeqsUpTo(Bytes, MaxLen) : IsUtf8(s)}

\* KMers { sequence, k }
IterInit ==
    /\ sequence \in StrPool
    /\ k \in 0..(MaxLen + 1)
    /\ it_sequence = sequence
    /\ it_yielded = <<>>
    /\ it_last = NotCalled
    /\ it_calls = 0
    /\ kmers_out = NotCalled
    /\ count_out = NotCalled
    /\ iter_order = <<>>
    /\ check_out = NotCalled
    /\ records = <<>>
    /\ pos = 1
    /\ pc = "idle"
    /\ out_file = NoFile
    /\ calls = <<>>
    /\ stdout = <<>>
    /\ stderr = <<>>
    /\ result = NotCalled

\* One call of next(), while the iterator has not panicked.
CallNext ==
    /\ it_last # Panic
    /\ it_calls < MaxNextCalls
    /\ LET r == KMersNext(it_sequence, k)
       IN  /\ it_last' = r.ret
           /\ it_sequence' = r.sequence
           /\ it_yielded' = IF r.ret.tag = "Some" THEN Append(it_yielded, r.ret.val)
                            ELSE it_yielded
    /\ it_calls' = it_calls + 1
    /\ UNCHANGED <<k, fnvars, runvars>>

IterNext == CallNext

IterSpec == IterInit /\ [][IterNext]_vars

\* ------------------------------------------------- what the claims speak of

\* 1 <= k <= |S|
ValidK == 1 <= k /\ k <= Len(sequence)

\* S[i .. i+k), i counted from 0.
Slice(i) == SubSeq(sequence, i + 1, i + k)

\* The number of offsets of S the k-mer `seq` occurs at.
Occurrences(seq) == Cardinality({i \in 0..(Len(sequence) - k) : Slice(i) = seq})

RECURSIVE SumCounts(_, _)
SumCounts(v, i) == IF i > Len(v) THEN 0 ELSE v[i].count + SumCounts(v, i + 1)

\* a < b in byte-lexicographic order, by recursion on the first bytes.
RECURSIVE BytewiseBefore(_, _)
BytewiseBefore(a, b) ==
    IF b = <<>> THEN FALSE
    ELSE IF a = <<>> THEN TRUE
    ELSE IF a[1] # b[1] THEN a[1] < b[1]
    ELSE BytewiseBefore(Tail(a), Tail(b))

\* kmers succeeded and yielded S[0..k), S[1..k+1), ..., S[|S|-k..|S|).
YieldsEveryWindow ==
    /\ kmers_out.tag = "Ok"
    /\ Len(kmers_out.val) = Len(sequence) - k + 1
    /\ \A i \in 0..(Len(sequence) - k) :
           /\ kmers_out.val[i + 1] = Slice(i)
           /\ Len(kmers_out.val[i + 1]) = k

\* C1 as stated: for every sequence S and every valid k, kmers(S, k) succeeds
\* and yields exactly |S| - k + 1 k-mers, the i-th being S[i .. i+k), each of
\* length k.
C1_EveryWindowOfAnySequence ==
    (kmers_out # NotCalled /\ ValidK) => YieldsEveryWindow

\* C1, amended: for every ASCII sequence S and every valid k, kmers(S, k)
\* succeeds and yields exactly |S| - k + 1 k-mers, the i-th being S[i .. i+k),
\* each of length k.
C1_EveryWindowOfAsciiSequence ==
    (kmers_out # NotCalled /\ ValidK /\ IsAscii(sequence)) => YieldsEveryWindow

\* kmers has yielded the three 2-mers of an ASCII sequence of length 4.
C1_Witness ==
    /\ IsAscii(sequence) /\ Len(sequence) = 4 /\ k = 2
    /\ kmers_out.tag = "Ok" /\ Len(kmers_out.val) = 3

\* The outcome C2 names for (S, k): "Ok", or the error value.
Classified ==
    IF k = 0 THEN Err([kind |-> "KmerLengthTooSmall", k |-> 0])
    ELSE IF k > Len(sequence)
         THEN Err([kind |-> "KmerLengthTooLong", k |-> k, seq_len |-> Len(sequence)])
         ELSE [tag |-> "Ok"]

\* C2: kmers(S, k) fails with KmerLengthTooSmall{k: 0} whenever k = 0, whatever
\* S is; with KmerLengthTooLong{k, seq_len: |S|} whenever k >= 1 and k > |S|; and
\* succeeds in every other case. count_kmers(S, k) returns the same error.
C2_OutcomeClassified ==
    /\ kmers_out # NotCalled =>
          IF Classified.tag = "Ok" THEN kmers_out.tag = "Ok" ELSE kmers_out = Classified
    /\ count_out # NotCalled =>
          IF Classified.tag = "Ok" THEN count_out.tag = "Ok" ELSE count_out = Classified

\* Both functions were called on the empty sequence with k = 0, and on it k's
\* validity decided: KmerLengthTooSmall.
C2_Witness ==
    /\ sequence = <<>> /\ k = 0
    /\ kmers_out.tag = "Err" /\ kmers_out.err.kind = "KmerLengthTooSmall"
    /\ count_out = kmers_out

\* C3: any two adjacent entries (a, b) of the list count_kmers returns have
\* count(a) > count(b), or equal counts and a.seq before b.seq byte-wise.
C3_RankedOrder ==
    count_out.tag = "Ok" =>
        \A i \in 1..(Len(count_out.val) - 1) :
            LET a == count_out.val[i]
                b == count_out.val[i + 1]
            IN  \/ a.count > b.count
                \/ a.count = b.count /\ BytewiseBefore(a.seq, b.seq)

\* A ranked list with a descent in count and then a tie, out of a HashMap that
\* enumerated the last-ranked k-mer first.
C3_Witness ==
    /\ count_out.tag = "Ok" /\ Len(count_out.val) = 3
    /\ count_out.val[1].count > count_out.val[2].count
    /\ count_out.val[2].count = count_out.val[3].count
    /\ iter_order[1] = count_out.val[3].seq

\* C4: the list count_kmers returned is the list it returns under every other
\* order the HashMap may enumerate its entries in.
C4_IterationOrderIrrelevant ==
    count_out.tag = "Ok" =>
        \A order \in OrdersFor(sequence, k) :
            CountKmers(sequence, k, order) = count_out

\* A ranked list of three entries out of a HashMap enumerated in the reverse of
\* the ranked order.
C4_Witness ==
    /\ count_out.tag = "Ok" /\ Len(count_out.val) = 3
    /\ \A i \in 1..3 : iter_order[i] = count_out.val[4 - i].seq

\* count_kmers succeeded and its counts add up to |S| - k + 1.
CountsAddUp ==
    /\ count_out.tag = "Ok"
    /\ SumCounts(count_out.val, 1) = Len(sequence) - k + 1

\* C5 as stated: for every sequence S and valid k, the counts count_kmers(S, k)
\* returns add up to |S| - k + 1.
C5_SumOfCountsOfAnySequence ==
    (count_out # NotCalled /\ ValidK) => CountsAddUp

\* C5, amended: for every ASCII sequence S and valid k, the counts
\* count_kmers(S, k) returns add up to |S| - k + 1.
C5_SumOfCountsOfAsciiSequence ==
    (count_out # NotCalled /\ ValidK /\ IsAscii(sequence)) => CountsAddUp

\* count_kmers has counted the 1-mers of an ASCII sequence of length 4 in which
\* a 1-mer repeats.
C5_Witness ==
    /\ IsAscii(sequence) /\ Len(sequence) = 4 /\ k = 1
    /\ count_out.tag = "Ok" /\ Len(count_out.val) = 2
    /\ count_out.val[1].count = 3

\* count_kmers succeeded with one entry per distinct k-mer of S, each with the
\* number of offsets it occurs at.
OneEntryPerKmer ==
    /\ count_out.tag = "Ok"
    /\ \A i, j \in 1..Len(count_out.val) :
           count_out.val[i].seq = count_out.val[j].seq => i = j
    /\ {count_out.val[i].seq : i \in 1..Len(count_out.val)}
          = {Slice(i) : i \in 0..(Len(sequence) - k)}
    /\ \A i \in 1..Len(count_out.val) :
           count_out.val[i].count = Occurrences(count_out.val[i].seq)

\* C6 as stated: for every sequence S and valid k, count_kmers(S, k) returns
\* exactly one entry per distinct k-mer occurring in S, with the number of
\* offsets it occurs at as its count.
C6_EntriesOfAnySequence ==
    (count_out # NotCalled /\ ValidK) => OneEntryPerKmer

\* C6, amended: for every ASCII sequence S and valid k, count_kmers(S, k)
\* returns exactly one entry per distinct k-mer occurring in S, with the number
\* of offsets it occurs at as its count.
C6_EntriesOfAsciiSequence ==
    (count_out # NotCalled /\ ValidK /\ IsAscii(sequence)) => OneEntryPerKmer

\* count_kmers has counted a 2-mer that occurs at two offsets of an ASCII
\* sequence, beside one that occurs once.
C6_Witness ==
    /\ IsAscii(sequence) /\ k = 2
    /\ count_out.tag = "Ok" /\ Len(count_out.val) = 2
    /\ count_out.val[1].count = 2 /\ count_out.val[2].count = 1

\* The offending symbols of S: its bytes that are none of A, T, C, G.
Offending == {sequence[i] : i \in {j \in 1..Len(sequence) : sequence[j] \notin {65, 84, 67, 71}}}

OffendingAt == {j \in 1..Len(sequence) : sequence[j] \notin {65, 84, 67, 71}}

Countable(i) == 1 <= k /\ k <= Len(records[i])

\* The lines save_kmer_count writes for record i.
TableOfRecord(i) ==
    TableLines(CountKmers(records[i], k,
                          CHOOSE order \in OrdersFor(records[i], k) : TRUE).val)

\* The output file holds the table of record i: its lines, in a row.
HoldsTableOf(i) ==
    /\ out_file.exists
    /\ \E off \in 0..(Len(out_file.lines) - Len(TableOfRecord(i))) :
           SubSeq(out_file.lines, off + 1, off + Len(TableOfRecord(i))) = TableOfRecord(i)

\* C8: after a run that completed over several records, one of them malformed
\* for k, the output holds the ranked table of every record whose counting
\* succeeded.
C8_OutputForAllValidRecords ==
    (/\ pc = "done" /\ result = Ok(<<>>)
     /\ Len(records) >= 2
     /\ \E j \in 1..Len(records) : ~Countable(j))
        => \A i \in 1..Len(records) : Countable(i) => HoldsTableOf(i)

\* C9: count_kmers is invoked on every record, in input order, whatever
\* check_bases and count_kmers returned for it and for the records before it;
\* nothing but an I/O failure ends the run early; and the run ends: absent I/O
\* failures, with success after the last record.
C9_NoCoreErrorStopsRun ==
    /\ [](calls = [i \in 1..Len(calls) |-> i])
    /\ [](pc = "loop" => Len(calls) = pos - 1)
    /\ [](pc = "done" => (result = Ok(<<>>) \/ result = Err([kind |-> "Io"])))
    /\ [](result = Ok(<<>>) => Len(calls) = Len(records))
    /\ <>(pc = "done")

\* A run of three records returned success although its first record failed
\* with KmerLengthTooLong and check_bases warned about a later one, which was
\* counted and saved.
C9_Witness ==
    /\ pc = "done" /\ result = Ok(<<>>)
    /\ calls = <<1, 2, 3>>
    /\ Len(stderr) >= 1 /\ stderr[1][1] = 1 /\ stderr[1][2].kind = "KmerLengthTooLong"
    /\ Len(stdout) >= 1 /\ stdout[1][1] > 1
    /\ out_file.exists

\* C10: a turn of the loop on a record count_kmers fails on (k = 0, or k above
\* the record's length) gets the error, not a table, from count_kmers, and
\* leaves the output file as it was.
C10_FailedRecordWritesNothing ==
    [][(/\ pc = "loop"
        /\ calls' = Append(calls, pos)
        /\ (k = 0 \/ k > Len(records[pos])))
          => (count_out'.tag = "Err" /\ out_file' = out_file)]_vars

\* A record has just failed, after an earlier record's table was saved; the
\* file still holds that table.
C10_Witness ==
    /\ pc = "loop" /\ pos = 3
    /\ Len(stderr) = 1 /\ stderr[1][1] = 2
    /\ count_out.tag = "Err"
    /\ HoldsTableOf(1)

\* C11: for every byte sequence S and every k >= 0, check_bases(S) returns
\* success or IncorrectBases, and count_kmers(S, k) returns a ranked list,
\* KmerLengthTooSmall or KmerLengthTooLong; neither panics.
C11_FailuresAreValuesNeverPanics ==
    /\ check_out # NotCalled =>
          \/ check_out.tag = "Ok"
          \/ check_out.tag = "Err" /\ check_out.err.kind = "IncorrectBases"
    /\ count_out # NotCalled =>
          \/ count_out.tag = "Ok"
          \/ /\ count_out.tag = "Err"
             /\ count_out.err.kind \in {"KmerLengthTooSmall", "KmerLengthTooLong"}

\* The number of windows of S: |S| - k + 1.
NumWindows == Len(sequence) - k + 1

\* C12: on an ASCII sequence S, for 1 <= k <= |S| the calls of next() return
\* S[0..k), S[1..k+1), ..., S[|S|-k..|S|) in this order and then None, the very
\* items of kmers(S, k); for k = 0 or k > |S| they return no item, where kmers
\* returns an error; and after a None every later call returns None.
C12_IteratorYieldsTheWindowsOfKmers ==
    /\ [](IsAscii(sequence) =>
            /\ it_last # Panic
            /\ IF ValidK
               THEN /\ Len(it_yielded) = IF it_calls < NumWindows THEN it_calls
                                         ELSE NumWindows
                    /\ \A i \in 1..Len(it_yielded) : it_yielded[i] = Slice(i - 1)
                    /\ it_calls > 0 => (it_last = None <=> it_calls > NumWindows)
                    /\ it_last = None => it_yielded = Kmers(sequence, k).val
               ELSE /\ it_yielded = <<>>
                    /\ it_calls > 0 => it_last = None
                    /\ Kmers(sequence, k).tag = "Err")
    /\ [][it_last = None => it_last' = None]_vars

\* The iterator on an ASCII sequence of length 4 with k = 2 has returned its
\* three windows and then None twice.
C12_Witness ==
    /\ IsAscii(sequence) /\ Len(sequence) = 4 /\ k = 2
    /\ it_calls = 5
    /\ it_last = None
    /\ Len(it_yielded) = 3

====
